---- MODULE Spec2Model ----
(***************************************************************************)
(* Memory::AllocatorStatistic, the statistics proxy over a BasicAllocator  *)
(* or ObjectAllocator backend (src/src/Memory/AllocatorStatistic.cpp).     *)
(*                                                                         *)
(* Every proxy member function is modelled at the grain of its atomic      *)
(* operations: one action per fetch_add, load, compare_exchange_weak,      *)
(* store and backend call, so that threads interleave exactly where the    *)
(* code lets them.  The backend is the pure-virtual interface of           *)
(* ObjectAllocator/BasicAllocator (src/unnamed/part_000); it is modelled   *)
(* as the most general block store its documentation allows.               *)
(***************************************************************************)
EXTENDS Integers, FiniteSets, Sequences, TLC

VARIABLES ctr, be, th, g

vars == <<ctr, be, th, g>>

----------------------------------------------------------------------------
(* Bounds of the model *)

\* number of caller threads
NThreads == 2
\* largest size a caller requests (sizes are 0..MaxSize)
MaxSize == 2
\* a backend hands out blocks of up to MaxSlack usable bytes beyond the
\* request
MaxSlack == 1
\* highest offer priority (priorities are 0..MaxPrio)
MaxPrio == 1
\* number of proxy calls made in one run of concurrent callers
MaxOps == 3
\* number of proxy calls made in one run of calls made one at a time
MaxSeqOps == 4
\* SpecAllocs: number of alloc calls each thread makes
AllocsPerThread == 2
\* SpecLive: alloc calls counted before a resetCounters() is due
MaxLiveCalls == 2
\* SpecOffers: the calls of a run, and the blocks the backend holds when the
\* proxy is constructed over it
MaxOfferOps == 4
HeldAtStart == 2

\* std::numeric_limits<size_t>::max(), the "no success yet" value of
\* m_smallest.  No block of that many bytes can exist, so it stands above
\* every size a call can succeed with.
SIZE_MAX == 2147483647

Max(a, b) == IF a >= b THEN a ELSE b
Min(a, b) == IF a <= b THEN a ELSE b

Threads == 1..NThreads
\* the addresses the backend can hand out: enough for every call of a run
NBlocks == Max(NThreads * AllocsPerThread, Max(MaxOps, MaxSeqOps))
Sizes == 0..MaxSize
Handles == 1..NBlocks
Priorities == 0..MaxPrio
\* nullptr
Null == 0
\* offer tokens ("unique pointers") are addresses distinct from every handle
TokIds == 1..NBlocks
Tok(k) == NBlocks + k
TokId(p) == p - NBlocks
Tokens == {Tok(k) : k \in TokIds}
\* what getAllocSize can report: a usable size, request plus slack
Usable == 0..(MaxSize + MaxSlack)


----------------------------------------------------------------------------
(* The counter set: the eighteen std::atomic members *)

\* the members in the order of the constructor's initialiser list and of
\* resetCounters' stores
CounterOrder ==
    << "m_smallest", "m_largest", "m_highest", "m_allocC", "m_alloc_failC",
       "m_alloc_largest_fail", "m_allocB", "m_reallocC", "m_realloc_failC",
       "m_realloc_growthB", "m_realloc_shrinkB", "m_realloc_moveC",
       "m_realloc_moveB", "m_offerC", "m_offerB", "m_reclaimC",
       "m_reclaim_failC", "m_reclaimB" >>

CounterNames == {CounterOrder[i] : i \in 1..Len(CounterOrder)}

\* the value the constructor and resetCounters give a member
InitialValue(name) == IF name = "m_smallest" THEN SIZE_MAX ELSE 0

\* AllocatorStatistic::AllocatorStatistic()
Constructed == [name \in CounterNames |-> InitialValue(name)]

\* std::atomic::fetch_add
FetchAdd(c, name, n) == [c EXCEPT ![name] = @ + n]

\* std::atomic::operator= / store
Store(c, name, v) == [c EXCEPT ![name] = v]

(* Read accessors *)
getHighestUsage == ctr.m_highest
getSmallestAlloc == IF ctr.m_smallest # SIZE_MAX THEN ctr.m_smallest ELSE 0
getLargestAlloc == ctr.m_largest
getTotalAllocs == ctr.m_allocC
getTotalAllocFails == ctr.m_alloc_failC
getLargestAllocFailed == ctr.m_alloc_largest_fail
getTotalAllocBytes == ctr.m_allocB
getTotalReallocs == ctr.m_reallocC
getTotalReallocFails == ctr.m_realloc_failC
getTotalReallocGrowth == ctr.m_realloc_growthB
getTotalReallocShrink == ctr.m_realloc_shrinkB
getTotalReallocMoves == ctr.m_realloc_moveC
getTotalReallocMoved == ctr.m_realloc_moveB
getTotalOffers == ctr.m_offerC
getTotalOfferBytes == ctr.m_offerB
getTotalReclaims == ctr.m_reclaimC
getTotalReclaimFails == ctr.m_reclaim_failC
getTotalReclaimBytes == ctr.m_reclaimB

\* what the eighteen accessors return, as one record
Accessors ==
    [ getHighestUsage |-> getHighestUsage,
      getSmallestAlloc |-> getSmallestAlloc,
      getLargestAlloc |-> getLargestAlloc,
      getTotalAllocs |-> getTotalAllocs,
      getTotalAllocFails |-> getTotalAllocFails,
      getLargestAllocFailed |-> getLargestAllocFailed,
      getTotalAllocBytes |-> getTotalAllocBytes,
      getTotalReallocs |-> getTotalReallocs,
      getTotalReallocFails |-> getTotalReallocFails,
      getTotalReallocGrowth |-> getTotalReallocGrowth,
      getTotalReallocShrink |-> getTotalReallocShrink,
      getTotalReallocMoves |-> getTotalReallocMoves,
      getTotalReallocMoved |-> getTotalReallocMoved,
      getTotalOffers |-> getTotalOffers,
      getTotalOfferBytes |-> getTotalOfferBytes,
      getTotalReclaims |-> getTotalReclaims,
      getTotalReclaimFails |-> getTotalReclaimFails,
      getTotalReclaimBytes |-> getTotalReclaimBytes ]

AccessorNames == DOMAIN Accessors

----------------------------------------------------------------------------
(* The backend: the ObjectAllocator / BasicAllocator interface.            *)
(* be.blocks maps every address to the block living there, be.toks every   *)
(* offer token to the offering it stands for.  A backend operation is a    *)
(* set of outcomes [ret, raised, be]: everything the interface's           *)
(* documentation lets an implementation do.  be.slack is the number of     *)
(* usable bytes by which this backend's blocks exceed the request.         *)
(* be.object tells whether the backend is an ObjectAllocator: the proxy's   *)
(* m_object_backing points to it when it is (constructor at line 45) and    *)
(* is nullptr when it is a BasicAllocator only (constructor at line 39).    *)

FreeBlock == [st |-> "free", size |-> 0]
NoTok == [st |-> "unused", blk |-> Null, prio |-> 0]

\* a backend with no allocation
EmptyBackend(slack, object) ==
    [blocks |-> [h \in Handles |-> FreeBlock],
     toks |-> [k \in TokIds |-> NoTok],
     slack |-> slack, object |-> object]

FreeHandles(b) == {h \in Handles : b.blocks[h].st = "free"}
UnusedToks(b) == {k \in TokIds : b.toks[k].st = "unused"}
LowestOf(S) == CHOOSE x \in S : \A y \in S : x <= y

Outcome(r, x, b) == [ret |-> r, raised |-> x, be |-> b]

RECURSIVE SumSizes(_, _)
SumSizes(b, S) ==
    IF S = {} THEN 0
    ELSE LET h == LowestOf(S) IN b.blocks[h].size + SumSizes(b, S \ {h})

\* BasicAllocator::getUsedBytes: the memory used for allocations, offered
\* blocks included until the backend takes them back
BackendGetUsedBytes(b) == SumSizes(b, Handles)

\* BasicAllocator::getTotalBytes: the memory inside the allocator, allocated
\* and free, here room for a largest block at every address
BackendGetTotalBytes(b) == NBlocks * (MaxSize + b.slack)

\* BasicAllocator::getFreeBytes: the memory left for the allocator to
\* provision
BackendGetFreeBytes(b) == BackendGetTotalBytes(b) - BackendGetUsedBytes(b)

\* ObjectAllocator::getPendingBytes: the offered memory
BackendGetPendingBytes(b) ==
    SumSizes(b, {h \in Handles : b.blocks[h].st = "offered"})

\* BasicAllocator::getAllocSize: the usable size of a valid allocated block;
\* for any other pointer (freed, offered, an offer token) the interface
\* promises nothing and the value is whatever the implementation finds
BackendGetAllocSize(b, ptr) ==
    IF ptr \in Handles /\ b.blocks[ptr].st = "alloc"
    THEN {b.blocks[ptr].size}
    ELSE Usable

\* BasicAllocator::alloc / ObjectAllocator::alloc: a block of at least
\* `bytes` usable bytes at a free address, nullptr on failure; nothing in
\* the interface forbids an implementation from throwing
BackendAlloc(b, bytes) ==
    {Outcome(h, FALSE,
             [b EXCEPT !.blocks[h] = [st |-> "alloc", size |-> bytes + b.slack]])
        : h \in IF FreeHandles(b) = {} THEN {} ELSE {LowestOf(FreeHandles(b))}}
    \cup {Outcome(Null, FALSE, b), Outcome(Null, TRUE, b)}

\* BasicAllocator::free / ObjectAllocator::free: nullptr is a no-op, a
\* handle is freed, an offer token is retired (and its block freed if the
\* backend still holds it)
BackendFree(b, ptr) ==
    IF ptr \in Handles THEN [b EXCEPT !.blocks[ptr] = FreeBlock]
    ELSE IF ptr \in Tokens THEN
        LET k == TokId(ptr) IN
        IF b.toks[k].st = "live"
        THEN [b EXCEPT !.blocks[b.toks[k].blk] = FreeBlock, !.toks[k] = NoTok]
        ELSE [b EXCEPT !.toks[k] = NoTok]
    ELSE b

\* BasicAllocator::realloc / ObjectAllocator::realloc: resized in place,
\* moved to another address (the old pointer is then freed), or nullptr
\* with the original allocation unaltered
BackendRealloc(b, ptr, bytes) ==
    {Outcome(ptr, FALSE,
             [b EXCEPT !.blocks[ptr] = [st |-> "alloc", size |-> bytes + b.slack]])}
    \cup {Outcome(h, FALSE,
                  [b EXCEPT !.blocks[ptr] = FreeBlock,
                            !.blocks[h] = [st |-> "alloc", size |-> bytes + b.slack]])
        : h \in IF FreeHandles(b) = {} THEN {} ELSE {LowestOf(FreeHandles(b))}}
    \cup {Outcome(Null, FALSE, b), Outcome(Null, TRUE, b)}

\* ObjectAllocator::offer: the block becomes reusable by the backend and a
\* unique pointer is returned, or the backend deallocates it right away and
\* returns nullptr
BackendOffer(b, ptr, priority) ==
    {Outcome(Tok(k), FALSE,
             [b EXCEPT !.blocks[ptr].st = "offered",
                       !.toks[k] = [st |-> "live", blk |-> ptr, prio |-> priority]])
        : k \in IF UnusedToks(b) = {} THEN {} ELSE {LowestOf(UnusedToks(b))}}
    \cup {Outcome(Null, FALSE, [b EXCEPT !.blocks[ptr] = FreeBlock]),
          Outcome(Null, TRUE, b)}

\* a reclaim that finds the offered block gone although nothing had
\* deallocated it: the block is dropped by reclaim itself
BackendReclaimStale(b, ptr) ==
    IF ptr \in Tokens THEN
        LET k == TokId(ptr) IN
        IF b.toks[k].st = "live"
        THEN {Outcome(Null, FALSE,
                      [b EXCEPT !.blocks[b.toks[k].blk] = FreeBlock,
                                !.toks[k] = NoTok]),
              Outcome(Null, TRUE, b)}
        ELSE {Outcome(Null, FALSE, [b EXCEPT !.toks[k] = NoTok]),
              Outcome(Null, TRUE, b)}
    ELSE {Outcome(Null, FALSE, b)}

\* ObjectAllocator::reclaim: the original pointer if the allocation still
\* exists, nullptr otherwise; the offer pointer is invalidated in both cases
BackendReclaim(b, ptr) ==
    IF ptr \in Tokens THEN
        LET k == TokId(ptr) IN
        IF b.toks[k].st = "live"
        THEN {Outcome(b.toks[k].blk, FALSE,
                      [b EXCEPT !.blocks[b.toks[k].blk].st = "alloc",
                                !.toks[k] = NoTok]),
              Outcome(Null, TRUE, b)}
        ELSE {Outcome(Null, FALSE, [b EXCEPT !.toks[k] = NoTok]),
              Outcome(Null, TRUE, b)}
    ELSE {Outcome(Null, FALSE, b)}

\* the offerings purge(priority) must deallocate, and those it may
MustPurge(b, priority) ==
    {k \in TokIds : b.toks[k].st = "live" /\ b.toks[k].prio <= priority}
MayPurge(b, priority) ==
    {k \in TokIds : b.toks[k].st = "live" /\ b.toks[k].prio > priority}

\* the offerings in K deallocated and their offer pointers retired with them
DiscardRetiring(b, K) ==
    [blocks |-> [h \in Handles |->
                    IF \E k \in K : b.toks[k].blk = h THEN FreeBlock
                    ELSE b.blocks[h]],
     toks |-> [k \in TokIds |-> IF k \in K THEN NoTok ELSE b.toks[k]],
     slack |-> b.slack, object |-> b.object]

\* the offerings in K deallocated; their offer pointers remain valid
Discard(b, K) ==
    [blocks |-> [h \in Handles |->
                    IF \E k \in K : b.toks[k].blk = h THEN FreeBlock
                    ELSE b.blocks[h]],
     toks |-> [k \in TokIds |->
                    IF k \in K THEN [b.toks[k] EXCEPT !.st = "dead", !.blk = Null]
                    ELSE b.toks[k]],
     slack |-> b.slack, object |-> b.object]

\* a purge that deallocates the blocks in use along with the offered ones
BackendPurgeAll(b, priority) == {EmptyBackend(b.slack, b.object)}

\* ObjectAllocator::purge
BackendPurge(b, priority) ==
    {Discard(b, MustPurge(b, priority) \cup K) : K \in SUBSET MayPurge(b, priority)}

\* BasicAllocator::reset: the default state, all allocations invalidated
BackendReset(b) == EmptyBackend(b.slack, b.object)

\* ObjectAllocator::clear: the default state, offer pointers invalidated
BackendClear(b) == EmptyBackend(b.slack, b.object)

----------------------------------------------------------------------------
(* The caller threads.  th[t] holds the position of thread t inside the     *)
(* proxy call it is making and that call's arguments and locals.            *)

Idle == [pc |-> "idle", op |-> "none", bytes |-> 0, ptr |-> Null,
         priority |-> 0, expected |-> 0, ret |-> Null, current_use |-> 0,
         last_size |-> 0, raised |-> FALSE, i |-> 0]

\* pointers an in-flight call of another thread is working on
Busy(t) == {th[u].ptr : u \in {v \in Threads : v # t /\ th[v].pc # "idle"}}
           \cup {th[u].ret : u \in {v \in Threads : v # t /\ th[v].pc # "idle"}}

\* reset() and clear() invalidate every allocation: a well-behaved caller
\* makes them only while no other call is in flight, and no call during them
Exclusive(t) == \A u \in Threads \ {t} : th[u].pc = "idle"
NoWipe(t) == \A u \in Threads \ {t} : th[u].op \notin {"reset", "clear"}

\* the handles thread t may pass to realloc, offer and free
LiveHandles(t) == {h \in Handles : be.blocks[h].st = "alloc"} \ Busy(t)
\* the offer pointers thread t may pass to reclaim and free
LiveTokens(t) == {Tok(k) : k \in {j \in TokIds : be.toks[j].st # "unused"}} \ Busy(t)

(* History variables: what the callers did, kept to state the claims *)

NoHistory == [allocCalls |-> 0, allocOK |-> 0, allocSizes |-> {},
              allocSum |-> 0, reallocOK |-> 0, bytesSum |-> 0]

\* a call begins: it is counted and, when calls are made one at a time,
\* the counters and the backend it found are remembered
Called(t) == [g EXCEPT !.ops = IF g.limit > 0 THEN @ + 1 ELSE @,
                       !.made[t] = IF g.quota > 0 THEN @ + 1 ELSE @,
                       !.snap[t] = IF g.seq THEN ctr ELSE @,
                       !.before[t] = IF g.seq THEN be ELSE @]

\* calls made one at a time are made by one thread
Turn(t) == g.seq => t = 1

\* in a run whose callers give each offer pointer to reclaim at most once
\* (g.once), g.given holds the pointers reclaim has been given since the
\* offer that returned them

\* a run makes g.limit calls, g.quota of them by each thread when the
\* threads share the calls out evenly; a limit of 0 is a run that goes on
\* making calls for ever
Budget(t) ==
    /\ g.limit > 0 => g.ops < g.limit
    /\ g.quota > 0 => g.made[t] < g.quota

\* a call has returned to its caller
Returned(t) ==
    LET r == th[t]
        ok == r.ret # Null /\ ~r.raised
        seen == [g EXCEPT !.snap[t] = Constructed,
                          !.before[t] = EmptyBackend(be.slack, be.object)]
    IN  IF g.limit = 0 THEN g
        ELSE IF r.op = "alloc"
        THEN [seen EXCEPT !.h.allocCalls = @ + 1,
                          !.h.allocOK = IF ok THEN @ + 1 ELSE @,
                          !.h.allocSizes = IF ok THEN @ \cup {r.bytes} ELSE @,
                          !.h.allocSum = IF ok THEN @ + r.bytes ELSE @,
                          !.h.bytesSum = IF ok THEN @ + r.bytes ELSE @]
        ELSE IF r.op = "realloc"
        THEN [seen EXCEPT !.h.reallocOK = IF ok THEN @ + 1 ELSE @,
                          !.h.bytesSum = IF ok THEN @ + r.bytes ELSE @]
        ELSE IF r.op = "offer"
        THEN [seen EXCEPT !.given = @ \ {r.ret}]
        ELSE seen

Goto(t, pc) == th' = [th EXCEPT ![t].pc = pc]

----------------------------------------------------------------------------
(* AllocatorStatistic::alloc, both overloads (their bodies differ only in   *)
(* the backing pointer they call through)                                   *)

\* the call not counted at its entry
AllocCallUncounted(t, bytes) ==
    /\ th[t].pc = "idle"
    /\ Turn(t)
    /\ NoWipe(t)
    /\ th' = [th EXCEPT ![t] = [Idle EXCEPT !.pc = "a_backend", !.op = "alloc",
                                            !.bytes = bytes]]
    /\ g' = Called(t)
    /\ UNCHANGED <<ctr, be>>

\* line 176: m_allocC.fetch_add(1)
AllocCall(t, bytes) ==
    /\ th[t].pc = "idle"
    /\ Turn(t)
    /\ NoWipe(t)
    /\ ctr' = FetchAdd(ctr, "m_allocC", 1)
    /\ th' = [th EXCEPT ![t] = [Idle EXCEPT !.pc = "a_backend", !.op = "alloc",
                                            !.bytes = bytes]]
    /\ g' = Called(t)
    /\ UNCHANGED be

\* line 180: ret = m_basic_backing->alloc(bytes, align); an exception
\* leaves the try block for the catch block
AllocDelegate(t, outcomes) ==
    /\ th[t].pc = "a_backend"
    /\ \E o \in outcomes :
        /\ be' = o.be
        /\ th' = [th EXCEPT ![t].ret = o.ret, ![t].raised = o.raised,
                            ![t].pc = IF o.raised THEN "failC" ELSE "a_used"]
    /\ UNCHANGED <<ctr, g>>

AllocBackend(t) == AllocDelegate(t, BackendAlloc(be, th[t].bytes))

\* line 231: m_allocC.fetch_add(1) of the overload with a destructor
AllocObjectCall(t, bytes) ==
    /\ th[t].pc = "idle"
    /\ Turn(t)
    /\ NoWipe(t)
    /\ ctr' = FetchAdd(ctr, "m_allocC", 1)
    /\ th' = [th EXCEPT ![t] = [Idle EXCEPT !.pc = "a_object", !.op = "alloc",
                                            !.bytes = bytes]]
    /\ g' = Called(t)
    /\ UNCHANGED be

\* line 235: ret = m_object_backing->alloc(bytes, destructor, align); from
\* there on the overload runs the steps of the other
AllocObjectBackend(t) ==
    /\ th[t].pc = "a_object"
    /\ be.object
    /\ \E o \in BackendAlloc(be, th[t].bytes) :
        /\ be' = o.be
        /\ th' = [th EXCEPT ![t].ret = o.ret, ![t].raised = o.raised,
                            ![t].pc = IF o.raised THEN "failC" ELSE "a_used"]
    /\ UNCHANGED <<ctr, g>>

\* the same call on a backend that grants every request
AllocGranted(t) ==
    AllocDelegate(t, {o \in BackendAlloc(be, th[t].bytes) : o.ret # Null})

\* the result not tested: a null result is booked as a success
AllocUsedUntested(t) ==
    /\ th[t].pc = "a_used"
    /\ th' = [th EXCEPT ![t].current_use = BackendGetUsedBytes(be),
                        ![t].pc = "addB"]
    /\ UNCHANGED <<ctr, be, g>>

\* lines 181, 183: current_use = getUsedBytes(); if (ret != nullptr)
AllocUsed(t) ==
    /\ th[t].pc = "a_used"
    /\ th' = [th EXCEPT ![t].current_use = BackendGetUsedBytes(be),
                        ![t].pc = IF th[t].ret # Null THEN "addB" ELSE "failC"]
    /\ UNCHANGED <<ctr, be, g>>

(* The success bookkeeping shared by alloc and realloc *)

\* the bytes counted for alloc only
AddAllocBOfAlloc(t) ==
    /\ th[t].pc = "addB"
    /\ ctr' = IF th[t].op = "alloc" THEN FetchAdd(ctr, "m_allocB", th[t].bytes)
              ELSE ctr
    /\ Goto(t, "ldLargest")
    /\ UNCHANGED <<be, g>>

\* lines 185, 302: m_allocB.fetch_add(bytes)
AddAllocB(t) ==
    /\ th[t].pc = "addB"
    /\ ctr' = FetchAdd(ctr, "m_allocB", th[t].bytes)
    /\ Goto(t, "ldLargest")
    /\ UNCHANGED <<be, g>>

\* every loop written with the condition of a maximum
MovesUp(name, expected, value) == expected < value

\* the loop conditions: while (expected > bytes) for the minimum
\* m_smallest, while (expected < value) for the three maxima
Moves(name, expected, value) ==
    IF name = "m_smallest" THEN expected > value ELSE expected < value

\* expected = counter.load(); the loop that follows is entered only while
\* the new value would move the extremum
Load(t, name, value, stay, exit) ==
    /\ th' = [th EXCEPT ![t].expected = ctr[name],
                        ![t].pc = IF Moves(name, ctr[name], value)
                                  THEN stay ELSE exit]
    /\ UNCHANGED <<ctr, be, g>>

\* an exchange that leaves `expected` as it was when it fails
CompareExchangeStale(t, name, value, stay, exit) ==
    IF ctr[name] = th[t].expected
    THEN /\ ctr' = Store(ctr, name, value)
         /\ Goto(t, exit)
         /\ UNCHANGED <<be, g>>
    ELSE UNCHANGED vars

\* counter.compare_exchange_weak(expected, value): the store happens only
\* if the counter still holds `expected`; otherwise `expected` is reloaded
\* and the loop condition is tested again
CompareExchange(t, name, value, stay, exit) ==
    IF ctr[name] = th[t].expected
    THEN /\ ctr' = Store(ctr, name, value)
         /\ Goto(t, exit)
         /\ UNCHANGED <<be, g>>
    ELSE /\ th' = [th EXCEPT ![t].expected = ctr[name],
                             ![t].pc = IF Moves(name, ctr[name], value)
                                       THEN stay ELSE exit]
         /\ UNCHANGED <<ctr, be, g>>

\* the size comparison skipped for a block that stayed where it was
AfterMoveOnly(t) ==
    IF th[t].last_size # th[t].bytes /\ th[t].ret # th[t].ptr
    THEN "r_delta" ELSE "done"

\* lines 325, 329: if (last_size > bytes) ... else if (last_size < bytes)
AfterMove(t) == IF th[t].last_size # th[t].bytes THEN "r_delta" ELSE "done"

\* where a call goes once its bookkeeping of the extrema is done: alloc
\* returns (line 211), realloc goes on to line 319, if (ret != ptr)
AfterHighest(t) ==
    IF th[t].op = "realloc"
    THEN IF th[t].ret # th[t].ptr THEN "r_moveC" ELSE AfterMove(t)
    ELSE "done"

\* the largest allocation left for later: the call goes on to the smallest
LoadLargestSkipped(t) ==
    /\ th[t].pc = "ldLargest"
    /\ Goto(t, "ldSmallest")
    /\ UNCHANGED <<ctr, be, g>>

\* lines 187-188: expected = m_largest.load(); while (expected < bytes)
LoadLargest(t) ==
    /\ th[t].pc = "ldLargest"
    /\ Load(t, "m_largest", th[t].bytes, "casLargest", "ldSmallest")

\* a store that does not compare: the update of another thread is lost
StoreLargest(t) ==
    /\ th[t].pc = "casLargest"
    /\ ctr' = Store(ctr, "m_largest", th[t].bytes)
    /\ Goto(t, "ldSmallest")
    /\ UNCHANGED <<be, g>>

\* the bytes in use stored as the largest size
CasLargestOfUse(t) ==
    /\ th[t].pc = "casLargest"
    /\ CompareExchange(t, "m_largest", th[t].current_use, "casLargest", "ldSmallest")

\* lines 188-190: the compare_exchange_weak on m_largest
CasLargest(t) ==
    /\ th[t].pc = "casLargest"
    /\ CompareExchange(t, "m_largest", th[t].bytes, "casLargest", "ldSmallest")

\* lines 192-193: expected = m_smallest.load(); while (expected > bytes)
LoadSmallest(t) ==
    /\ th[t].pc = "ldSmallest"
    /\ Load(t, "m_smallest", th[t].bytes, "casSmallest", "ldHighest")

\* lines 193-195: the compare_exchange_weak on m_smallest
CasSmallest(t) ==
    /\ th[t].pc = "casSmallest"
    /\ CompareExchange(t, "m_smallest", th[t].bytes, "casSmallest", "ldHighest")

\* the high-water mark never recorded
LoadHighestSkipped(t) ==
    /\ th[t].pc = "ldHighest"
    /\ Goto(t, AfterHighest(t))
    /\ UNCHANGED <<ctr, be, g>>

\* lines 197-198: expected = m_highest.load(); while (expected < current_use)
LoadHighest(t) ==
    /\ th[t].pc = "ldHighest"
    /\ Load(t, "m_highest", th[t].current_use, "casHighest", AfterHighest(t))

\* the requested size stored as the high-water mark
CasHighestOfBytes(t) ==
    /\ th[t].pc = "casHighest"
    /\ CompareExchange(t, "m_highest", th[t].bytes, "casHighest", AfterHighest(t))

\* lines 198-200: the compare_exchange_weak on m_highest
CasHighest(t) ==
    /\ th[t].pc = "casHighest"
    /\ CompareExchange(t, "m_highest", th[t].current_use, "casHighest", AfterHighest(t))

(* The failure bookkeeping: the else branch and the catch block *)

\* one fail counter for both operations
CountFailShared(t) ==
    /\ th[t].pc = "failC"
    /\ ctr' = FetchAdd(ctr, "m_alloc_failC", 1)
    /\ Goto(t, "ldFail")
    /\ UNCHANGED <<be, g>>

\* a catch block that rethrows without counting
CountFailReturned(t) ==
    /\ th[t].pc = "failC"
    /\ ctr' = IF th[t].raised THEN ctr
              ELSE FetchAdd(ctr, IF th[t].op = "realloc" THEN "m_realloc_failC"
                                 ELSE "m_alloc_failC", 1)
    /\ Goto(t, "ldFail")
    /\ UNCHANGED <<be, g>>

\* lines 204, 217 (alloc) and 337, 351 (realloc): the fail counter
CountFail(t) ==
    /\ th[t].pc = "failC"
    /\ ctr' = FetchAdd(ctr, IF th[t].op = "realloc" THEN "m_realloc_failC"
                            ELSE "m_alloc_failC", 1)
    /\ Goto(t, "ldFail")
    /\ UNCHANGED <<be, g>>

\* a catch block that leaves the largest failed size alone
LoadLargestFailReturned(t) ==
    /\ th[t].pc = "ldFail"
    /\ IF th[t].raised
       THEN Goto(t, "done") /\ UNCHANGED <<ctr, be, g>>
       ELSE Load(t, "m_alloc_largest_fail", th[t].bytes, "casFail", "done")

\* lines 206-207, 219-220: expected = m_alloc_largest_fail.load()
LoadLargestFail(t) ==
    /\ th[t].pc = "ldFail"
    /\ Load(t, "m_alloc_largest_fail", th[t].bytes, "casFail", "done")

\* lines 207-209, 220-222: the compare_exchange_weak on m_alloc_largest_fail
CasLargestFail(t) ==
    /\ th[t].pc = "casFail"
    /\ CompareExchange(t, "m_alloc_largest_fail", th[t].bytes, "casFail", "done")

\* compare_exchange_weak may fail although the counter holds `expected`;
\* `expected` is reloaded with the value it already has and the loop retries
CasSpurious(t) ==
    /\ \/ th[t].pc = "casLargest" /\ ctr.m_largest = th[t].expected
       \/ th[t].pc = "casSmallest" /\ ctr.m_smallest = th[t].expected
       \/ th[t].pc = "casHighest" /\ ctr.m_highest = th[t].expected
       \/ th[t].pc = "casFail" /\ ctr.m_alloc_largest_fail = th[t].expected
    /\ UNCHANGED vars

----------------------------------------------------------------------------
(* AllocatorStatistic::realloc, both overloads *)

\* line 291: m_reallocC.fetch_add(1)
ReallocCall(t, ptr, bytes) ==
    /\ th[t].pc = "idle"
    /\ Turn(t)
    /\ NoWipe(t)
    /\ ptr \in LiveHandles(t)
    /\ ctr' = FetchAdd(ctr, "m_reallocC", 1)
    /\ th' = [th EXCEPT ![t] = [Idle EXCEPT !.pc = "r_size", !.op = "realloc",
                                            !.ptr = ptr, !.bytes = bytes]]
    /\ g' = Called(t)
    /\ UNCHANGED be

\* line 365: m_reallocC.fetch_add(1) of the overload with a destructor
ReallocObjectCall(t, ptr, bytes) ==
    /\ th[t].pc = "idle"
    /\ Turn(t)
    /\ NoWipe(t)
    /\ ptr \in LiveHandles(t)
    /\ ctr' = FetchAdd(ctr, "m_reallocC", 1)
    /\ th' = [th EXCEPT ![t] = [Idle EXCEPT !.pc = "r_sizeO", !.op = "realloc",
                                            !.ptr = ptr, !.bytes = bytes]]
    /\ g' = Called(t)
    /\ UNCHANGED be

\* lines 295, 369: last_size = getAllocSize(ptr), asked of m_basic_backing
ReallocSize(t) ==
    /\ th[t].pc \in {"r_size", "r_sizeO"}
    /\ \E n \in BackendGetAllocSize(be, th[t].ptr) :
        th' = [th EXCEPT ![t].last_size = n,
                         ![t].pc = IF th[t].pc = "r_size" THEN "r_backend"
                                   ELSE "r_object"]
    /\ UNCHANGED <<ctr, be, g>>

\* line 371: ret = m_object_backing->realloc(ptr, bytes, destructor, align);
\* from there on the overload runs the steps of the other
ReallocObjectBackend(t) ==
    /\ th[t].pc = "r_object"
    /\ be.object
    /\ \E o \in BackendRealloc(be, th[t].ptr, th[t].bytes) :
        /\ be' = o.be
        /\ th' = [th EXCEPT ![t].ret = o.ret, ![t].raised = o.raised,
                            ![t].pc = IF o.raised THEN "failC" ELSE "r_used"]
    /\ UNCHANGED <<ctr, g>>

\* line 297: ret = m_basic_backing->realloc(ptr, bytes, align); an
\* exception leaves the try block for the catch block
ReallocBackend(t) ==
    /\ th[t].pc = "r_backend"
    /\ \E o \in BackendRealloc(be, th[t].ptr, th[t].bytes) :
        /\ be' = o.be
        /\ th' = [th EXCEPT ![t].ret = o.ret, ![t].raised = o.raised,
                            ![t].pc = IF o.raised THEN "failC" ELSE "r_used"]
    /\ UNCHANGED <<ctr, g>>

\* lines 298, 300: current_use = getUsedBytes(); if (ret != nullptr)
ReallocUsed(t) ==
    /\ th[t].pc = "r_used"
    /\ th' = [th EXCEPT ![t].current_use = BackendGetUsedBytes(be),
                        ![t].pc = IF th[t].ret # Null THEN "addB" ELSE "failC"]
    /\ UNCHANGED <<ctr, be, g>>

\* line 321: m_realloc_moveC.fetch_add(1)
ReallocMoveC(t) ==
    /\ th[t].pc = "r_moveC"
    /\ ctr' = FetchAdd(ctr, "m_realloc_moveC", 1)
    /\ Goto(t, "r_moveB")
    /\ UNCHANGED <<be, g>>

\* the bytes of the block as it was, not the new size
ReallocMoveBOld(t) ==
    /\ th[t].pc = "r_moveB"
    /\ ctr' = FetchAdd(ctr, "m_realloc_moveB", th[t].last_size)
    /\ Goto(t, AfterMove(t))
    /\ UNCHANGED <<be, g>>

\* line 322: m_realloc_moveB.fetch_add(bytes)
ReallocMoveB(t) ==
    /\ th[t].pc = "r_moveB"
    /\ ctr' = FetchAdd(ctr, "m_realloc_moveB", th[t].bytes)
    /\ Goto(t, AfterMove(t))
    /\ UNCHANGED <<be, g>>

\* a shrink taken off the growth counter instead of added to the shrink
\* counter
ReallocDeltaNet(t) ==
    /\ th[t].pc = "r_delta"
    /\ ctr' = FetchAdd(ctr, "m_realloc_growthB", th[t].bytes - th[t].last_size)
    /\ Goto(t, "done")
    /\ UNCHANGED <<be, g>>

\* the difference added to both counters
ReallocDeltaBoth(t) ==
    /\ th[t].pc = "r_delta"
    /\ LET d == IF th[t].last_size > th[t].bytes
                THEN th[t].last_size - th[t].bytes
                ELSE th[t].bytes - th[t].last_size
       IN  ctr' = FetchAdd(FetchAdd(ctr, "m_realloc_shrinkB", d),
                           "m_realloc_growthB", d)
    /\ Goto(t, "done")
    /\ UNCHANGED <<be, g>>

\* lines 325-332: the shrink or the growth counter
ReallocDelta(t) ==
    /\ th[t].pc = "r_delta"
    /\ ctr' = IF th[t].last_size > th[t].bytes
              THEN FetchAdd(ctr, "m_realloc_shrinkB", th[t].last_size - th[t].bytes)
              ELSE IF th[t].last_size < th[t].bytes
              THEN FetchAdd(ctr, "m_realloc_growthB", th[t].bytes - th[t].last_size)
              ELSE ctr
    /\ Goto(t, "done")
    /\ UNCHANGED <<be, g>>

----------------------------------------------------------------------------
(* AllocatorStatistic::offer *)

\* an offer that is not counted
OfferCallUncounted(t, ptr, priority) ==
    /\ th[t].pc = "idle"
    /\ Turn(t)
    /\ NoWipe(t)
    /\ ptr \in LiveHandles(t)
    /\ th' = [th EXCEPT ![t] = [Idle EXCEPT !.pc = "o_size", !.op = "offer",
                                            !.ptr = ptr, !.priority = priority]]
    /\ g' = Called(t)
    /\ UNCHANGED <<ctr, be>>

\* line 443: m_offerC.fetch_add(1)
OfferCall(t, ptr, priority) ==
    /\ th[t].pc = "idle"
    /\ Turn(t)
    /\ NoWipe(t)
    /\ ptr \in LiveHandles(t)
    /\ ctr' = FetchAdd(ctr, "m_offerC", 1)
    /\ th' = [th EXCEPT ![t] = [Idle EXCEPT !.pc = "o_size", !.op = "offer",
                                            !.ptr = ptr, !.priority = priority]]
    /\ g' = Called(t)
    /\ UNCHANGED be

\* the size asked of the backend for a block it has already been offered
OfferSizeLate(t) ==
    /\ th[t].pc = "o_size"
    /\ \E n \in BackendGetAllocSize(
                    [be EXCEPT !.blocks[th[t].ptr].st = "offered"], th[t].ptr) :
        th' = [th EXCEPT ![t].last_size = n, ![t].pc = "o_addB"]
    /\ UNCHANGED <<ctr, be, g>>

\* line 444: the argument getAllocSize(ptr)
OfferSize(t) ==
    /\ th[t].pc = "o_size"
    /\ \E n \in BackendGetAllocSize(be, th[t].ptr) :
        th' = [th EXCEPT ![t].last_size = n, ![t].pc = "o_addB"]
    /\ UNCHANGED <<ctr, be, g>>

\* line 444: m_offerB.fetch_add(...)
OfferAddB(t) ==
    /\ th[t].pc = "o_addB"
    /\ ctr' = FetchAdd(ctr, "m_offerB", th[t].last_size)
    /\ Goto(t, "o_backend")
    /\ UNCHANGED <<be, g>>

\* the backend's offer called with its default priority, not the caller's
OfferBackendDefault(t) ==
    /\ th[t].pc = "o_backend"
    /\ \E o \in BackendOffer(be, th[t].ptr, 0) :
        /\ be' = o.be
        /\ th' = [th EXCEPT ![t].ret = o.ret, ![t].raised = o.raised,
                            ![t].pc = "done"]
    /\ UNCHANGED <<ctr, g>>

\* lines 446-448: ret = m_object_backing->offer(ptr, priority); return ret;
\* an exception leaves the function
OfferBackend(t) ==
    /\ th[t].pc = "o_backend"
    /\ be.object
    /\ \E o \in BackendOffer(be, th[t].ptr, th[t].priority) :
        /\ be' = o.be
        /\ th' = [th EXCEPT ![t].ret = o.ret, ![t].raised = o.raised,
                            ![t].pc = "done"]
    /\ UNCHANGED <<ctr, g>>

----------------------------------------------------------------------------
(* AllocatorStatistic::reclaim *)

\* line 453: m_reclaimC.fetch_add(1)
ReclaimCall(t, ptr) ==
    /\ th[t].pc = "idle"
    /\ Turn(t)
    /\ NoWipe(t)
    /\ ptr \in LiveTokens(t) \cup {Null}
    /\ ctr' = FetchAdd(ctr, "m_reclaimC", 1)
    /\ th' = [th EXCEPT ![t] = [Idle EXCEPT !.pc = "c_backend", !.op = "reclaim",
                                            !.ptr = ptr]]
    /\ g' = [Called(t) EXCEPT !.given = IF g.once THEN @ \cup {ptr} ELSE @]
    /\ UNCHANGED be

\* a reclaim that catches the backend's exception, counts a failure and
\* rethrows
ReclaimBackendCaught(t) ==
    /\ th[t].pc = "c_backend"
    /\ be.object
    /\ \E o \in BackendReclaim(be, th[t].ptr) :
        /\ be' = o.be
        /\ th' = [th EXCEPT ![t].ret = o.ret, ![t].raised = o.raised,
                            ![t].pc = IF o.raised \/ o.ret = Null THEN "c_fail"
                                      ELSE "c_size"]
    /\ UNCHANGED <<ctr, g>>

\* lines 455, 457: ret = m_object_backing->reclaim(ptr); if (ret == nullptr);
\* an exception leaves the function
ReclaimBackend(t) ==
    /\ th[t].pc = "c_backend"
    /\ be.object
    /\ \E o \in BackendReclaim(be, th[t].ptr) :
        /\ be' = o.be
        /\ th' = [th EXCEPT ![t].ret = o.ret, ![t].raised = o.raised,
                            ![t].pc = IF o.raised THEN "done"
                                      ELSE IF o.ret = Null THEN "c_fail"
                                      ELSE "c_size"]
    /\ UNCHANGED <<ctr, g>>

\* a failed reclaim that is not counted
ReclaimFailUncounted(t) ==
    /\ th[t].pc = "c_fail"
    /\ Goto(t, "done")
    /\ UNCHANGED <<ctr, be, g>>

\* line 459: m_reclaim_failC.fetch_add(1)
ReclaimFail(t) ==
    /\ th[t].pc = "c_fail"
    /\ ctr' = FetchAdd(ctr, "m_reclaim_failC", 1)
    /\ Goto(t, "done")
    /\ UNCHANGED <<be, g>>

\* line 463: the argument getAllocSize(ptr), ptr being the offer pointer
\* that was passed in
ReclaimSize(t) ==
    /\ th[t].pc = "c_size"
    /\ \E n \in BackendGetAllocSize(be, th[t].ptr) :
        th' = [th EXCEPT ![t].last_size = n, ![t].pc = "c_addB"]
    /\ UNCHANGED <<ctr, be, g>>

\* line 463: m_reclaimB.fetch_add(...)
ReclaimAddB(t) ==
    /\ th[t].pc = "c_addB"
    /\ ctr' = FetchAdd(ctr, "m_reclaimB", th[t].last_size)
    /\ Goto(t, "done")
    /\ UNCHANGED <<be, g>>

----------------------------------------------------------------------------
(* AllocatorStatistic::resetCounters, reset and clear *)

\* resetCounters going on to the backend's reset as reset does
AfterStoresReset(t) ==
    IF th[t].op \in {"reset", "resetCounters"} THEN "x_reset"
    ELSE IF th[t].op = "clear" THEN "x_clear"
    ELSE "done"

\* where the eighteenth store leaves the call: resetCounters returns,
\* reset goes on to line 472 and clear to line 483
AfterStores(t) ==
    IF th[t].op = "reset" THEN "x_reset"
    ELSE IF th[t].op = "clear" THEN "x_clear"
    ELSE "done"

\* every counter stored as 0, the smallest allocation too
StoreZero(c, i) == Store(c, CounterOrder[i], 0)

\* the i-th of the stores of lines 149-166
StoreInitial(c, i) == Store(c, CounterOrder[i], InitialValue(CounterOrder[i]))

\* a call of resetCounters, or of reset or clear which begin with it:
\* line 149, m_smallest = max
BeginStores(t, op) ==
    /\ th[t].pc = "idle"
    /\ Turn(t)
    /\ NoWipe(t)
    /\ ctr' = StoreInitial(ctr, 1)
    /\ th' = [th EXCEPT ![t] = [Idle EXCEPT !.pc = "stores", !.op = op, !.i = 2]]
    /\ g' = [Called(t) EXCEPT !.h = NoHistory]
    /\ UNCHANGED be

ResetCountersCall(t) == BeginStores(t, "resetCounters")

\* reset going straight to the backend, the counters left as they are
ResetCallBare(t) ==
    /\ Exclusive(t)
    /\ th[t].pc = "idle"
    /\ Turn(t)
    /\ th' = [th EXCEPT ![t] = [Idle EXCEPT !.pc = "x_reset", !.op = "reset"]]
    /\ g' = [Called(t) EXCEPT !.h = NoHistory]
    /\ UNCHANGED <<ctr, be>>

\* line 471
ResetCall(t) == Exclusive(t) /\ BeginStores(t, "reset")

\* line 482
ClearCall(t) == Exclusive(t) /\ BeginStores(t, "clear")

\* the stores without the last one, m_reclaimB = 0
ResetStoreButLast(t) ==
    /\ th[t].pc = "stores"
    /\ ctr' = IF th[t].i = Len(CounterOrder) THEN ctr ELSE StoreInitial(ctr, th[t].i)
    /\ th' = [th EXCEPT ![t].i = @ + 1,
                        ![t].pc = IF th[t].i = Len(CounterOrder)
                                  THEN AfterStores(t) ELSE "stores"]
    /\ UNCHANGED <<be, g>>

\* lines 150-166: the next store
ResetStore(t) ==
    /\ th[t].pc = "stores"
    /\ ctr' = StoreInitial(ctr, th[t].i)
    /\ th' = [th EXCEPT ![t].i = @ + 1,
                        ![t].pc = IF th[t].i = Len(CounterOrder)
                                  THEN AfterStores(t) ELSE "stores"]
    /\ UNCHANGED <<be, g>>

\* line 472: m_basic_backing->reset()
ResetBackend(t) ==
    /\ th[t].pc = "x_reset"
    /\ be' = BackendReset(be)
    /\ Goto(t, "done")
    /\ UNCHANGED <<ctr, g>>

\* line 483: m_object_backing->clear()
ClearBackend(t) ==
    /\ th[t].pc = "x_clear"
    /\ be.object
    /\ be' = BackendClear(be)
    /\ Goto(t, "done")
    /\ UNCHANGED <<ctr, g>>

----------------------------------------------------------------------------
(* AllocatorStatistic::free and purge *)

\* free of an offer pointer booked as a reclaim
FreeCallCounting(t, ptr) ==
    /\ th[t].pc = "idle"
    /\ Turn(t)
    /\ NoWipe(t)
    /\ ptr \in LiveHandles(t) \cup LiveTokens(t) \cup {Null}
    /\ be' = BackendFree(be, ptr)
    /\ ctr' = IF ptr \in Tokens THEN FetchAdd(ctr, "m_reclaimC", 1) ELSE ctr
    /\ th' = [th EXCEPT ![t] = [Idle EXCEPT !.pc = "done", !.op = "free",
                                            !.ptr = ptr]]
    /\ g' = Called(t)

\* line 285: m_basic_backing->free(ptr)
FreeCall(t, ptr) ==
    /\ th[t].pc = "idle"
    /\ Turn(t)
    /\ NoWipe(t)
    /\ ptr \in LiveHandles(t) \cup LiveTokens(t) \cup {Null}
    /\ be' = BackendFree(be, ptr)
    /\ th' = [th EXCEPT ![t] = [Idle EXCEPT !.pc = "done", !.op = "free",
                                            !.ptr = ptr]]
    /\ g' = Called(t)
    /\ UNCHANGED ctr

\* line 477: m_object_backing->purge(priority)
PurgeCall(t, priority) ==
    /\ th[t].pc = "idle"
    /\ Turn(t)
    /\ NoWipe(t)
    /\ be.object
    /\ be' \in BackendPurge(be, priority)
    /\ th' = [th EXCEPT ![t] = [Idle EXCEPT !.pc = "done", !.op = "purge",
                                            !.priority = priority]]
    /\ g' = Called(t)
    /\ UNCHANGED ctr

----------------------------------------------------------------------------
(* Calls through m_object_backing on a proxy constructed over a            *)
(* BasicAllocator: the pointer is nullptr and the call through it is        *)
(* undefined behaviour.  What a build does with it: the process dies at     *)
(* the call (pc "crashed", no step follows), or, inside the try blocks of   *)
(* alloc and realloc on a build that delivers the access violation as an    *)
(* exception, catch (...) takes it like an exception of the backend.        *)

\* what the backend b answers to the query `op`
QueryAnswer(b, op, ptr) ==
    CASE op = "getAllocSize" -> BackendGetAllocSize(b, ptr)
      [] op = "getFreeBytes" -> {BackendGetFreeBytes(b)}
      [] op = "getUsedBytes" -> {BackendGetUsedBytes(b)}
      [] op = "getPendingBytes" -> {BackendGetPendingBytes(b)}
      [] op = "getTotalBytes" -> {BackendGetTotalBytes(b)}

\* lines 438, 488, 493, 498, 503: getAllocSize, getFreeBytes, getUsedBytes,
\* getPendingBytes and getTotalBytes return what the backend's function of
\* the same name returns; the value returned is kept in last_size
QueryCall(t, op, ptr) ==
    /\ th[t].pc = "idle"
    /\ Turn(t)
    /\ NoWipe(t)
    /\ op = "getPendingBytes" => be.object
    /\ IF op = "getAllocSize" THEN ptr \in LiveHandles(t) ELSE ptr = Null
    /\ \E n \in QueryAnswer(be, op, ptr) :
        th' = [th EXCEPT ![t] = [Idle EXCEPT !.pc = "done", !.op = op,
                                             !.ptr = ptr, !.last_size = n]]
    /\ g' = Called(t)
    /\ UNCHANGED <<ctr, be>>

\* the places where the next statement calls through m_object_backing
AtObjectCall == {"a_object", "r_object", "o_backend", "c_backend", "x_clear"}

\* lines 235, 371, 446, 455, 483 with m_object_backing == nullptr
NullObjectBacking(t) ==
    /\ th[t].pc \in AtObjectCall
    /\ ~be.object
    /\ \/ th' = [th EXCEPT ![t].pc = "crashed"]
       \/ /\ th[t].pc \in {"a_object", "r_object"}
          /\ th' = [th EXCEPT ![t].raised = TRUE, ![t].pc = "failC"]
    /\ UNCHANGED <<ctr, be, g>>

\* the operations whose first statement calls through m_object_backing
ObjectOnly == {"purge", "getPendingBytes"}

\* lines 477, 498 with m_object_backing == nullptr
NullObjectEntry(t, op) ==
    /\ th[t].pc = "idle"
    /\ Turn(t)
    /\ ~be.object
    /\ th' = [th EXCEPT ![t] = [Idle EXCEPT !.pc = "crashed", !.op = op]]
    /\ g' = Called(t)
    /\ UNCHANGED <<ctr, be>>

----------------------------------------------------------------------------
\* return ret (line 211) or std::rethrow_exception(eptr) (line 224): the
\* call is over and its result is with the caller
Return(t) ==
    /\ th[t].pc = "done"
    /\ th' = [th EXCEPT ![t] = Idle]
    /\ g' = Returned(t)
    /\ UNCHANGED <<ctr, be>>

----------------------------------------------------------------------------
(* Specifications *)

Fresh(object, seq, limit, quota) ==
    /\ ctr = Constructed
    /\ \E slack \in 0..MaxSlack : be = EmptyBackend(slack, object)
    /\ th = [t \in Threads |-> Idle]
    /\ g = [seq |-> seq, limit |-> limit, quota |-> quota, ops |-> 0, made |-> [t \in Threads |-> 0],
            snap |-> [t \in Threads |-> Constructed],
            before |-> [t \in Threads |-> be],
            h |-> NoHistory, once |-> FALSE, given |-> {}]

\* a freshly constructed proxy over an empty backend, called concurrently
Init == Fresh(TRUE, FALSE, MaxOps, 0)

\* the same proxy, its calls made one at a time
InitSeq == Fresh(TRUE, TRUE, MaxSeqOps, 0)

\* the same proxy, each thread making AllocsPerThread calls concurrently
InitAllocs == Fresh(TRUE, FALSE, NThreads * AllocsPerThread, AllocsPerThread)

\* a proxy constructed over a BasicAllocator, its calls made one at a time
InitBasic == Fresh(FALSE, TRUE, MaxSeqOps, 0)

\* the calls a thread may begin
AllocEnter(t) == Budget(t) /\ \E bytes \in Sizes : AllocCall(t, bytes)
AllocObjectEnter(t) == Budget(t) /\ \E bytes \in Sizes : AllocObjectCall(t, bytes)
ReallocEnter(t) ==
    Budget(t) /\ \E ptr \in Handles, bytes \in Sizes : ReallocCall(t, ptr, bytes)
ReallocObjectEnter(t) ==
    Budget(t) /\ \E ptr \in Handles, bytes \in Sizes : ReallocObjectCall(t, ptr, bytes)
NullObjectEnter(t) == Budget(t) /\ \E op \in ObjectOnly : NullObjectEntry(t, op)
OfferEnter(t) ==
    Budget(t) /\ \E ptr \in Handles, priority \in Priorities : OfferCall(t, ptr, priority)
ReclaimEnter(t) == Budget(t) /\ \E ptr \in Tokens \cup {Null} : ReclaimCall(t, ptr)
FreeEnter(t) ==
    Budget(t) /\ \E ptr \in Handles \cup Tokens \cup {Null} : FreeCall(t, ptr)
PurgeEnter(t) == Budget(t) /\ \E priority \in Priorities : PurgeCall(t, priority)
ResetCountersEnter(t) == Budget(t) /\ ResetCountersCall(t)
ResetEnter(t) == Budget(t) /\ ResetCall(t)
ClearEnter(t) == Budget(t) /\ ClearCall(t)

Enter(t) ==
    \/ AllocEnter(t) \/ AllocObjectEnter(t)
    \/ ReallocEnter(t) \/ ReallocObjectEnter(t)
    \/ OfferEnter(t) \/ ReclaimEnter(t)
    \/ FreeEnter(t) \/ PurgeEnter(t)
    \/ ResetCountersEnter(t) \/ ResetEnter(t) \/ ClearEnter(t)

Step(t) ==
    \/ AllocBackend(t) \/ AllocObjectBackend(t) \/ AllocUsed(t) \/ AddAllocB(t)
    \/ LoadLargest(t) \/ CasLargest(t)
    \/ LoadSmallest(t) \/ CasSmallest(t)
    \/ LoadHighest(t) \/ CasHighest(t)
    \/ CountFail(t) \/ LoadLargestFail(t) \/ CasLargestFail(t)
    \/ CasSpurious(t)
    \/ ReallocSize(t) \/ ReallocBackend(t) \/ ReallocObjectBackend(t)
    \/ ReallocUsed(t)
    \/ ReallocMoveC(t) \/ ReallocMoveB(t) \/ ReallocDelta(t)
    \/ OfferSize(t) \/ OfferAddB(t) \/ OfferBackend(t)
    \/ ReclaimBackend(t) \/ ReclaimFail(t) \/ ReclaimSize(t) \/ ReclaimAddB(t)
    \/ ResetStore(t) \/ ResetBackend(t) \/ ClearBackend(t)
    \/ Return(t)

Next == \E t \in Threads : Enter(t) \/ Step(t)

\* concurrent callers
Spec == Init /\ [][Next]_vars

\* callers that make their calls one at a time
SpecSeq == InitSeq /\ [][Next]_vars

\* alloc calls on a backend that grants every request
AllocSteps(t) ==
    \/ AllocGranted(t) \/ AllocUsed(t) \/ AddAllocB(t)
    \/ LoadLargest(t) \/ CasLargest(t)
    \/ LoadSmallest(t) \/ CasSmallest(t)
    \/ LoadHighest(t) \/ CasHighest(t)
    \/ CasSpurious(t) \/ Return(t)

NextAllocs == \E t \in Threads : AllocEnter(t) \/ AllocSteps(t)

\* concurrent callers that make successful alloc calls only
SpecAllocs == InitAllocs /\ [][NextAllocs]_vars

\* the calls a thread may begin on a proxy over a BasicAllocator
EnterBasic(t) ==
    \/ AllocEnter(t) \/ AllocObjectEnter(t)
    \/ ReallocEnter(t) \/ ReallocObjectEnter(t)
    \/ OfferEnter(t) \/ ReclaimEnter(t)
    \/ FreeEnter(t) \/ NullObjectEnter(t)
    \/ ResetCountersEnter(t) \/ ResetEnter(t) \/ ClearEnter(t)

\* the steps such a proxy can take: none that follows a call through
\* m_object_backing
StepBasic(t) ==
    \/ AllocBackend(t) \/ AllocUsed(t) \/ AddAllocB(t)
    \/ LoadLargest(t) \/ CasLargest(t)
    \/ LoadSmallest(t) \/ CasSmallest(t)
    \/ LoadHighest(t) \/ CasHighest(t)
    \/ CountFail(t) \/ LoadLargestFail(t) \/ CasLargestFail(t)
    \/ CasSpurious(t)
    \/ ReallocSize(t) \/ ReallocBackend(t) \/ ReallocUsed(t)
    \/ ReallocMoveC(t) \/ ReallocMoveB(t) \/ ReallocDelta(t)
    \/ OfferSize(t) \/ OfferAddB(t)
    \/ NullObjectBacking(t)
    \/ ResetStore(t) \/ ResetBackend(t)
    \/ Return(t)

NextBasic == \E t \in Threads : EnterBasic(t) \/ StepBasic(t)

\* a proxy over a BasicAllocator, its calls made one at a time
SpecBasic == InitBasic /\ [][NextBasic]_vars

\* the same proxy as Init, called concurrently without end
InitLive == Fresh(TRUE, FALSE, 0, 0)

\* line 180 on a backend that has no memory left: nullptr or an exception
AllocDenied(t) ==
    AllocDelegate(t, {o \in BackendAlloc(be, th[t].bytes) : o.ret = Null})

\* an alloc call, made while the call counter is below MaxLiveCalls
AllocLiveEnter(t) == ctr.m_allocC < MaxLiveCalls /\ AllocEnter(t)

\* the steps of a thread inside a call of SpecLive
LiveSteps(t) ==
    \/ AllocDenied(t) \/ AllocUsed(t)
    \/ CountFail(t) \/ LoadLargestFail(t) \/ CasLargestFail(t)
    \/ CasSpurious(t)
    \/ ResetStore(t)
    \/ Return(t)

NextLive ==
    \E t \in Threads :
        AllocLiveEnter(t) \/ ResetCountersEnter(t) \/ LiveSteps(t)

\* callers that go on making alloc and resetCounters calls on a backend
\* that refuses every request, under a scheduler that lets every thread
\* inside a call take its next step
SpecLive ==
    InitLive /\ [][NextLive]_vars /\ \A t \in Threads : WF_vars(LiveSteps(t))

\* the steps of a thread inside an alloc or realloc call
GrowSteps(t) ==
    \/ AllocBackend(t) \/ AllocUsed(t) \/ AddAllocB(t)
    \/ LoadLargest(t) \/ CasLargest(t)
    \/ LoadSmallest(t) \/ CasSmallest(t)
    \/ LoadHighest(t) \/ CasHighest(t)
    \/ CountFail(t) \/ LoadLargestFail(t) \/ CasLargestFail(t)
    \/ CasSpurious(t)
    \/ ReallocSize(t) \/ ReallocBackend(t) \/ ReallocUsed(t)
    \/ ReallocMoveC(t) \/ ReallocMoveB(t) \/ ReallocDelta(t)
    \/ Return(t)

NextGrow == \E t \in Threads : AllocEnter(t) \/ ReallocEnter(t) \/ GrowSteps(t)

\* concurrent callers that make alloc and realloc calls and no reset
SpecGrow == Init /\ [][NextGrow]_vars

\* the calls of NextGrow with offer, free, purge and the five queries
NextQuery ==
    \E t \in Threads :
        \/ AllocEnter(t) \/ ReallocEnter(t) \/ OfferEnter(t)
        \/ FreeEnter(t) \/ PurgeEnter(t)
        \/ /\ Budget(t)
           /\ \E op \in {"getAllocSize", "getFreeBytes", "getUsedBytes",
                          "getPendingBytes", "getTotalBytes"} :
                \E ptr \in Handles \cup {Null} : QueryCall(t, op, ptr)
        \/ GrowSteps(t)
        \/ OfferSize(t) \/ OfferAddB(t) \/ OfferBackend(t)

\* those calls made one at a time
SpecQuery == InitSeq /\ [][NextQuery]_vars

----------------------------------------------------------------------------
(* Properties *)

AllIdle == \A t \in Threads : th[t].pc = "idle"

\* thread t is back from a call of `op`, the result in its hands
Back(t, op) == th[t].pc = "done" /\ th[t].op = op

SetMax(S) == IF S = {} THEN 0 ELSE CHOOSE x \in S : \A y \in S : y <= x
SetMin(S) == IF S = {} THEN 0 ELSE CHOOSE x \in S : \A y \in S : x <= y

C2_AllocCallsCounted ==
    AllIdle => /\ getTotalAllocs = g.h.allocCalls
               /\ getTotalAllocs = g.h.allocOK + getTotalAllocFails

\* one call at least was granted and two were not
C2_Witness ==
    /\ AllIdle
    /\ g.h.allocOK >= 1
    /\ getTotalAllocFails >= 2
    /\ g.h.allocCalls = g.h.allocOK + 2

\* C3: after any sequence of alloc calls since construction or the last
\* reset, getLargestAlloc() is the maximum and getSmallestAlloc() the
\* minimum of the requested sizes of the calls that succeeded, both 0 when
\* none has succeeded; failed calls contribute to neither.
C3_AllocExtrema ==
    (AllIdle /\ g.h.reallocOK = 0)
    => /\ getLargestAlloc = SetMax(g.h.allocSizes)
       /\ getSmallestAlloc = SetMin(g.h.allocSizes)

\* two successful calls of different non-zero sizes and a failed call of a
\* third size
C3_Witness ==
    /\ AllIdle
    /\ g.h.reallocOK = 0
    /\ g.h.allocOK = 2
    /\ 0 < getSmallestAlloc
    /\ getSmallestAlloc < getLargestAlloc
    /\ getTotalAllocFails = 1
    /\ getLargestAllocFailed \notin g.h.allocSizes

\* the counters a successful call updates
SuccessCounters == {"m_allocB", "m_smallest", "m_largest", "m_highest",
                    "m_realloc_growthB", "m_realloc_shrinkB",
                    "m_realloc_moveC", "m_realloc_moveB"}

\* C4: when the backend's alloc or realloc raises, the call leaves the proxy
\* raising, with the matching fail counter one higher than the call found
\* it, getLargestAllocFailed() at max(previous, requested size) and every
\* success counter as the call found it.
C4_RaiseIsCountedAsFailure ==
    \A t \in Threads :
        (th[t].pc = "done" /\ th[t].raised /\ th[t].op \in {"alloc", "realloc"})
        => /\ ctr.m_alloc_failC = g.snap[t].m_alloc_failC
                                  + (IF th[t].op = "alloc" THEN 1 ELSE 0)
           /\ ctr.m_realloc_failC = g.snap[t].m_realloc_failC
                                    + (IF th[t].op = "realloc" THEN 1 ELSE 0)
           /\ getLargestAllocFailed
                  = Max(g.snap[t].m_alloc_largest_fail, th[t].bytes)
           /\ \A c \in SuccessCounters : ctr[c] = g.snap[t][c]

\* a realloc that raised with a request larger than every earlier failure,
\* after a successful alloc
C4_Witness ==
    \E t \in Threads :
        /\ Back(t, "realloc")
        /\ th[t].raised
        /\ th[t].bytes > g.snap[t].m_alloc_largest_fail
        /\ g.snap[t].m_alloc_failC >= 1
        /\ getTotalAllocBytes >= 1

\* C5: in every reachable state of every interleaving of concurrent proxy
\* calls, resetCounters included, each call counter is at least its fail
\* counter.
C5_CallsCoverFails ==
    /\ getTotalAllocs >= getTotalAllocFails
    /\ getTotalReallocs >= getTotalReallocFails
    /\ getTotalReclaims >= getTotalReclaimFails

\* a call of resetCounters, reset or clear has begun its stores and not
\* finished them
Storing(t) == th[t].pc = "stores"

\* C6: resetCounters() is atomic for an observer: while it runs, a reader
\* finds the counters either all as they were before the call or all reset.
C6_ResetIsAtomic ==
    \A t \in Threads :
        (Storing(t) /\ th[t].op = "resetCounters")
        => \/ ctr = g.snap[t]
           \/ ctr = Constructed

\* C7: after resetCounters() returns, with no other call in flight, every
\* one of the eighteen accessors returns 0, as on a freshly constructed
\* proxy.
C7_ResetZeroesAll ==
    \A t \in Threads :
        Back(t, "resetCounters")
        => \A a \in AccessorNames : Accessors[a] = 0

\* resetCounters has returned after a workload of alloc, offer and reclaim
\* that had left allocated, offered and reclaimed bytes
C7_Witness ==
    \E t \in Threads :
        /\ Back(t, "resetCounters")
        /\ g.snap[t].m_allocB > 0
        /\ g.snap[t].m_smallest # SIZE_MAX
        /\ g.snap[t].m_offerB > 0
        /\ g.snap[t].m_reclaimB > 0

\* the step is one of the stores of resetCounters, reset or clear
StoreStep ==
    \E t \in Threads : th'[t] # th[t] /\ (Storing(t) \/ th'[t].pc = "stores")

\* C8 as claimed: between two resets no accessor's value ever decreases,
\* getSmallestAlloc() included.
C8_NoAccessorDecreases ==
    [][~StoreStep =>
        LET before == Accessors
            after == Accessors'
        IN  \A a \in AccessorNames : after[a] >= before[a]]_vars

\* C8 as amended: between two resets the seventeen accessors other than
\* getSmallestAlloc() never decrease, and the minimum kept in m_smallest
\* never increases: getSmallestAlloc() rises from 0 to the first successful
\* size and from then on only falls.
C8_CountersMonotone ==
    [][~StoreStep =>
        LET before == Accessors
            after == Accessors'
        IN
        /\ \A a \in AccessorNames \ {"getSmallestAlloc"} : after[a] >= before[a]
        /\ ctr'.m_smallest <= ctr.m_smallest
        /\ (getSmallestAlloc' < getSmallestAlloc => getSmallestAlloc' \in Sizes)
        /\ (getSmallestAlloc' > getSmallestAlloc => ctr.m_smallest = SIZE_MAX)]_vars

\* counters have risen and the smallest successful size has fallen below
\* the largest
C8_Witness ==
    /\ getTotalAllocs >= 2
    /\ getTotalReallocs >= 1
    /\ 0 < getSmallestAlloc
    /\ getSmallestAlloc < getLargestAlloc

\* C9: a successful reclaim adds to getTotalReclaimBytes() exactly the size
\* of the reclaimed block, the size the backend reports for the handle that
\* reclaim returned.
C9_ReclaimBytesIsBlockSize ==
    \A t \in Threads :
        (Back(t, "reclaim") /\ th[t].ret # Null)
        => getTotalReclaimBytes
               = g.snap[t].m_reclaimB + be.blocks[th[t].ret].size

\* C10: every reclaim call has added 1 to getTotalReclaims() from before
\* it delegates; a call that returned the null sentinel has added 1 to
\* getTotalReclaimFails() and nothing to getTotalReclaimBytes(), and a call
\* that returned a handle has left getTotalReclaimFails() alone.
C10_ReclaimCounting ==
    \A t \in Threads :
        /\ (th[t].op = "reclaim" /\ th[t].pc # "idle")
           => getTotalReclaims = g.snap[t].m_reclaimC + 1
        /\ (Back(t, "reclaim") /\ ~th[t].raised /\ th[t].ret = Null)
           => /\ getTotalReclaimFails = g.snap[t].m_reclaim_failC + 1
              /\ getTotalReclaimBytes = g.snap[t].m_reclaimB
        /\ (Back(t, "reclaim") /\ th[t].ret # Null)
           => getTotalReclaimFails = g.snap[t].m_reclaim_failC

\* a reclaim of an offer pointer whose block the backend had taken back has
\* returned null
C10_Witness ==
    \E t \in Threads :
        /\ Back(t, "reclaim")
        /\ th[t].ptr \in Tokens
        /\ th[t].ret = Null
        /\ ~th[t].raised

\* the size the backend reported for the block a returned realloc was
\* given, before the call
SizeBefore(t) == g.before[t].blocks[th[t].ptr].size

\* a realloc call has returned a pointer
ReallocDone(t) == Back(t, "realloc") /\ ~th[t].raised /\ th[t].ret # Null

\* C11: a successful realloc that leaves the block at its address, from
\* size A to requested size B, adds B - A to getTotalReallocGrowth() and
\* nothing to getTotalReallocShrink() when B > A, adds A - B to
\* getTotalReallocShrink() and nothing to getTotalReallocGrowth() when
\* B < A, and changes neither when B = A.
C11_GrowthAndShrink ==
    \A t \in Threads :
        (ReallocDone(t) /\ th[t].ret = th[t].ptr)
        => LET A == SizeBefore(t)
               B == th[t].bytes
           IN  /\ getTotalReallocGrowth
                      = g.snap[t].m_realloc_growthB + (IF B > A THEN B - A ELSE 0)
               /\ getTotalReallocShrink
                      = g.snap[t].m_realloc_shrinkB + (IF B < A THEN A - B ELSE 0)

\* a block has been shrunk in place after an earlier growth in place
C11_Witness ==
    \E t \in Threads :
        /\ ReallocDone(t)
        /\ th[t].ret = th[t].ptr
        /\ th[t].bytes < SizeBefore(t)
        /\ g.snap[t].m_realloc_growthB > 0
        /\ getTotalReallocShrink > g.snap[t].m_realloc_shrinkB

\* C12: a successful realloc with requested size B whose result differs
\* from the pointer passed in adds 1 to getTotalReallocMoves() and B to
\* getTotalReallocMoved(); one whose result is the pointer passed in, and
\* a failed one, change neither.
C12_MoveAccounting ==
    \A t \in Threads :
        Back(t, "realloc")
        => LET moved == ReallocDone(t) /\ th[t].ret # th[t].ptr
           IN  /\ getTotalReallocMoves
                      = g.snap[t].m_realloc_moveC + (IF moved THEN 1 ELSE 0)
               /\ getTotalReallocMoved
                      = g.snap[t].m_realloc_moveB
                        + (IF moved THEN th[t].bytes ELSE 0)

\* a block has been moved by a realloc to a size other than the one it had
C12_Witness ==
    \E t \in Threads :
        /\ ReallocDone(t)
        /\ th[t].ret # th[t].ptr
        /\ th[t].bytes > 0
        /\ th[t].bytes # SizeBefore(t)
        /\ getTotalReallocMoves = 1

\* the operations the proxy hands to the backend's operation of the same
\* name
Delegated == {"alloc", "realloc", "free", "offer", "reclaim", "purge",
              "reset", "clear"}

\* what the backend b can answer, and become, when the call r is made on it
\* directly
Direct(b, r) ==
    CASE r.op = "alloc" -> BackendAlloc(b, r.bytes)
      [] r.op = "realloc" -> BackendRealloc(b, r.ptr, r.bytes)
      [] r.op = "free" -> {Outcome(Null, FALSE, BackendFree(b, r.ptr))}
      [] r.op = "offer" -> BackendOffer(b, r.ptr, r.priority)
      [] r.op = "reclaim" -> BackendReclaim(b, r.ptr)
      [] r.op = "purge" ->
            {Outcome(Null, FALSE, x) : x \in BackendPurge(b, r.priority)}
      [] r.op = "reset" -> {Outcome(Null, FALSE, BackendReset(b))}
      [] r.op = "clear" -> {Outcome(Null, FALSE, BackendClear(b))}
      [] OTHER -> {}

\* C14: the proxy is transparent: when a call of alloc, free, realloc,
\* offer, reclaim, purge, reset or clear is over, what the caller received
\* and the state the backend is in are a result and a state of the
\* backend's operation of the same name, applied once with the same
\* arguments to the backend as the call found it.
C14_Transparent ==
    \A t \in Threads :
        (th[t].pc = "done" /\ th[t].op \in Delegated)
        => Outcome(th[t].ret, th[t].raised, be) \in Direct(g.before[t], th[t])

\* an offer with a priority above the default has returned an offer
\* pointer for a block of a backend that held two
C14_Witness ==
    \E t \in Threads :
        /\ Back(t, "offer")
        /\ th[t].priority > 0
        /\ th[t].ret \in Tokens
        /\ Cardinality({h \in Handles : g.before[t].blocks[h].st = "alloc"}) = 2

\* an alloc call has returned, without raising
AllocDone(t) == Back(t, "alloc") /\ ~th[t].raised

\* C15: an alloc of size s that returned null has added 1 to
\* getTotalAllocFails(), left getLargestAllocFailed() at max(previous, s)
\* and left smallest, largest, allocated bytes and highest usage as they
\* were; an alloc that returned a pointer has left getTotalAllocFails() and
\* getLargestAllocFailed() as they were.
C15_FailedAllocFrame ==
    \A t \in Threads :
        /\ (AllocDone(t) /\ th[t].ret = Null)
           => /\ getTotalAllocFails = g.snap[t].m_alloc_failC + 1
              /\ getLargestAllocFailed
                     = Max(g.snap[t].m_alloc_largest_fail, th[t].bytes)
              /\ \A c \in {"m_smallest", "m_largest", "m_allocB", "m_highest"} :
                     ctr[c] = g.snap[t][c]
        /\ (AllocDone(t) /\ th[t].ret # Null)
           => /\ getTotalAllocFails = g.snap[t].m_alloc_failC
              /\ getLargestAllocFailed = g.snap[t].m_alloc_largest_fail

\* alloc(2) returned null and then alloc(1) a pointer: two calls, one
\* failure, largest failed 2, smallest and largest 1
C15_Witness ==
    \E t \in Threads :
        /\ AllocDone(t)
        /\ th[t].ret # Null
        /\ th[t].bytes = 1
        /\ getTotalAllocs = 2
        /\ getTotalAllocFails = 1
        /\ getLargestAllocFailed = 2
        /\ getSmallestAlloc = 1
        /\ getLargestAlloc = 1

C17_AllocBytesIsReceivedSize ==
    \A t \in Threads :
        (AllocDone(t) /\ th[t].ret # Null)
        => getTotalAllocBytes
               = g.snap[t].m_allocB + be.blocks[th[t].ret].size

\* C18: getTotalAllocBytes() changes only with a successful allocation or
\* a relocating reallocation: a successful realloc that returns the
\* pointer it was given leaves it as it was.
C18_InPlaceReallocLeavesBytes ==
    \A t \in Threads :
        (ReallocDone(t) /\ th[t].ret = th[t].ptr)
        => getTotalAllocBytes = g.snap[t].m_allocB

\* the counters a failed realloc leaves alone
ReallocFailFrame == {"m_allocC", "m_alloc_failC", "m_allocB",
                     "m_realloc_growthB", "m_realloc_shrinkB",
                     "m_realloc_moveC", "m_realloc_moveB",
                     "m_smallest", "m_largest", "m_highest"}

\* C19: a realloc of requested size B that returned null has added 1 to
\* getTotalReallocFails(), left getLargestAllocFailed() at
\* max(previous, B), and left the alloc fail count, the allocated bytes,
\* growth, shrink, move count, moved bytes, smallest, largest and highest
\* usage as they were; no realloc call changes getTotalAllocs().
C19_FailedReallocFrame ==
    \A t \in Threads :
        /\ (Back(t, "realloc") /\ ~th[t].raised /\ th[t].ret = Null)
           => /\ getTotalReallocFails = g.snap[t].m_realloc_failC + 1
              /\ getLargestAllocFailed
                     = Max(g.snap[t].m_alloc_largest_fail, th[t].bytes)
              /\ \A c \in ReallocFailFrame : ctr[c] = g.snap[t][c]
        /\ (th[t].op = "realloc" /\ th[t].pc # "idle")
           => getTotalAllocs = g.snap[t].m_allocC

\* a realloc has returned null for a request larger than any that had
\* failed, after a failed and a successful alloc
C19_Witness ==
    \E t \in Threads :
        /\ Back(t, "realloc")
        /\ ~th[t].raised
        /\ th[t].ret = Null
        /\ g.snap[t].m_alloc_failC = 1
        /\ g.snap[t].m_allocB > 0
        /\ th[t].bytes > g.snap[t].m_alloc_largest_fail

\* C20: every offer call adds 1 to getTotalOffers() and the block's size,
\* as the backend reports it before its offer is invoked, to
\* getTotalOfferBytes(); both are done when the backend's offer is invoked
\* and stay so whether it returns an offer pointer or null.
C20_OfferCounting ==
    \A t \in Threads :
        (th[t].op = "offer" /\ th[t].pc \in {"o_backend", "done"})
        => /\ getTotalOffers = g.snap[t].m_offerC + 1
           /\ getTotalOfferBytes = g.snap[t].m_offerB + SizeBefore(t)
           /\ th[t].pc = "o_backend" => be = g.before[t]

\* the backend deallocated a block of two bytes or more right away and
\* offer returned null, after an earlier offer that returned an offer
\* pointer
C20_Witness ==
    \E t \in Threads :
        /\ Back(t, "offer")
        /\ ~th[t].raised
        /\ th[t].ret = Null
        /\ SizeBefore(t) >= 2
        /\ g.snap[t].m_offerC = 1
        /\ \E k \in TokIds : be.toks[k].st = "live"

\* thread t is in, or has ended, a call of an operation of the object tier
ObjectTierCall(t) ==
    \/ th[t].pc \in {"a_object", "r_sizeO", "r_object", "crashed"}
    \/ th[t].pc # "idle"
       /\ th[t].op \in {"offer", "reclaim", "purge", "clear", "getPendingBytes"}

\* C13: a proxy constructed over a BasicAllocator rejects every operation
\* of the object tier at the boundary: no counter and nothing of the
\* backend is changed by the call.
C13_BasicTierRejects ==
    \A t \in Threads :
        (~be.object /\ ObjectTierCall(t))
        => ctr = g.snap[t] /\ be = g.before[t]

\* an alloc or realloc call is back, the backend's used bytes it read at
\* line 181 or 298 in current_use
UsedSeen(t) ==
    /\ th[t].pc = "done"
    /\ th[t].op \in {"alloc", "realloc"}
    /\ ~th[t].raised

\* C21 (as stated): getHighestUsage() is at least every used-bytes value
\* the proxy obtained from the backend since construction or the last
\* reset, whatever the call that obtained it returned.
C21_HighestCoversObserved ==
    \A t \in Threads :
        UsedSeen(t) => getHighestUsage >= th[t].current_use

\* C21 (amended): an alloc or realloc that returned a pointer leaves
\* getHighestUsage() at the larger of its previous value and the used bytes
\* the call read from the backend; one that returned null read the used
\* bytes too and leaves getHighestUsage() as it was.
C21_HighestIsSuccessPeak ==
    \A t \in Threads :
        UsedSeen(t)
        => getHighestUsage
               = IF th[t].ret # Null
                 THEN Max(g.snap[t].m_highest, th[t].current_use)
                 ELSE g.snap[t].m_highest

\* a granted call raises a high-water mark that earlier calls had set
C21_Witness ==
    \E t \in Threads :
        /\ UsedSeen(t)
        /\ th[t].ret # Null
        /\ g.snap[t].m_highest > 0
        /\ th[t].current_use > g.snap[t].m_highest
        /\ getHighestUsage = th[t].current_use

\* C22: the first alloc or realloc that returns a pointer after
\* resetCounters() (or after construction), asked for s bytes, leaves
\* getSmallestAlloc() == s: the reset puts the running minimum back to its
\* no-successes-yet state and does not pin it to 0.
C22_FirstSuccessSetsSmallest ==
    \A t \in Threads :
        ( /\ AllocDone(t) \/ ReallocDone(t)
          /\ th[t].ret # Null
          /\ g.h.allocOK = 0
          /\ g.h.reallocOK = 0 )
        => getSmallestAlloc = th[t].bytes

\* a block of another size was allocated, resetCounters() ran, and the
\* next alloc, of 2 bytes, is granted: the smallest allocation is 2
C22_Witness ==
    \E t \in Threads :
        /\ AllocDone(t)
        /\ th[t].ret # Null
        /\ th[t].bytes = 2
        /\ g.h.allocOK = 0
        /\ g.h.reallocOK = 0
        /\ g.snap[t].m_allocC = 0
        /\ \E h \in Handles : /\ g.before[t].blocks[h].st = "alloc"
                              /\ g.before[t].blocks[h].size = 1
        /\ getSmallestAlloc = 2

\* C23: resetCounters() invokes no backend operation: from its call to its
\* return the backend (live allocations, offered blocks, offer pointers and
\* with them the used, pending, free and total bytes) is as the call found
\* it.
C23_ResetCountersLeavesBackend ==
    \A t \in Threads :
        (th[t].op = "resetCounters" /\ th[t].pc # "idle")
        => be = g.before[t]

\* resetCounters() is back with an allocated and an offered block in the
\* backend and every counter at its initial value
C23_Witness ==
    \E t \in Threads :
        /\ Back(t, "resetCounters")
        /\ ctr = Constructed
        /\ \E h \in Handles : be.blocks[h].st = "alloc"
        /\ \E h \in Handles : be.blocks[h].st = "offered"
        /\ BackendGetUsedBytes(be) > 0
        /\ g.snap[t].m_offerC = 1

\* the call counter of each operation kind that has one
CallCounter ==
    [alloc |-> "m_allocC", realloc |-> "m_reallocC",
     offer |-> "m_offerC", reclaim |-> "m_reclaimC"]

\* the positions of a call at which it has not yet made a call of the
\* backend that changes it: the next step is, or leads up to, the
\* backend's alloc, realloc, offer or reclaim
BeforeBackend ==
    {"a_backend", "a_object", "r_size", "r_sizeO", "r_backend", "r_object",
     "o_size", "o_addB", "o_backend", "c_backend"}

\* C25: for alloc, realloc, offer and reclaim, the call counter of the
\* operation kind is incremented before the backend operation is invoked:
\* while a call is anywhere between its entry and its return, the backend
\* calls made on its behalf included, its counter is one above the value
\* the call found, and at the positions up to the backend operation the
\* backend is still as the call found it.
C25_CountedBeforeBackend ==
    \A t \in Threads :
        (th[t].op \in DOMAIN CallCounter /\ th[t].pc # "idle")
        => /\ ctr[CallCounter[th[t].op]] = g.snap[t][CallCounter[th[t].op]] + 1
           /\ th[t].pc \in BeforeBackend => be = g.before[t]

\* the backend's realloc is about to run for a call already counted, after
\* an alloc and an offer were counted before it
C25_Witness ==
    \E t \in Threads :
        /\ th[t].pc = "r_backend"
        /\ getTotalReallocs = 1
        /\ getTotalAllocs = 2
        /\ getTotalOffers = 1
        /\ be = g.before[t]

\* the calls of the discardable-memory protocol
ProtocolOps == {"offer", "reclaim", "purge", "free"}

\* the transitions of a block the lifecycle is stated with: Allocated ->
\* Offered by offer, Offered -> Allocated by reclaim, Offered -> Freed by
\* reclaim or purge, Allocated -> Freed by free
StatedMoves ==
    {<<"alloc", "offered", "offer">>, <<"offered", "alloc", "reclaim">>,
     <<"offered", "free", "reclaim">>, <<"offered", "free", "purge">>,
     <<"alloc", "free", "free">>}

\* the two further transitions of ObjectAllocator::offer's documentation:
\* the block deallocated right away by offer, and the offered block
\* deallocated by free of its offer pointer
FurtherMoves ==
    {<<"alloc", "free", "offer">>, <<"offered", "free", "free">>}

\* every block changed by the protocol call thread t is back from has made
\* a transition of `moves`
MovedWithin(t, moves) ==
    \A h \in Handles :
        \/ be.blocks[h].st = g.before[t].blocks[h].st
        \/ <<g.before[t].blocks[h].st, be.blocks[h].st, th[t].op>> \in moves

\* C26 (as stated): under offer, reclaim, purge and free calls a block
\* makes only the transitions Allocated -> Offered (offer), Offered ->
\* Allocated (reclaim), Offered -> Freed (reclaim or purge) and Allocated ->
\* Freed (free), and a Freed block stays Freed.
C26_StatedLifecycle ==
    \A t \in Threads :
        (th[t].pc = "done" /\ th[t].op \in ProtocolOps)
        => MovedWithin(t, StatedMoves)

\* C26 (amended): the same with two more transitions: Allocated -> Freed
\* by an offer the backend answers by deallocating the block at once, and
\* Offered -> Freed by free of the offer pointer.
C26_Lifecycle ==
    \A t \in Threads :
        (th[t].pc = "done" /\ th[t].op \in ProtocolOps)
        => MovedWithin(t, StatedMoves \cup FurtherMoves)

\* free of an offer pointer has deallocated the block it stood for, which
\* was still offered, and left an allocated block alone
C26_Witness ==
    \E t \in Threads :
        /\ Back(t, "free")
        /\ th[t].ptr \in Tokens
        /\ g.before[t].toks[TokId(th[t].ptr)].st = "live"
        /\ g.before[t].blocks[g.before[t].toks[TokId(th[t].ptr)].blk].st = "offered"
        /\ be.blocks[g.before[t].toks[TokId(th[t].ptr)].blk].st = "free"
        /\ \E h \in Handles : be.blocks[h].st = "alloc"

\* the offer pointers handed out by offer and not yet passed to free or
\* reclaim
Outstanding(b) == {k \in TokIds : b.toks[k].st # "unused"}

\* the offer pointer a free or reclaim call was given, if it was given one
Retired(t) ==
    IF th[t].op \in {"free", "reclaim"} /\ th[t].ptr \in Tokens /\ ~th[t].raised
    THEN {TokId(th[t].ptr)} ELSE {}

\* C27: an offer pointer stays outstanding until it is passed to free or
\* reclaim: a free or reclaim call that returns retires exactly the offer
\* pointer it was given, reclaim whether it returns the handle or null; any
\* other call short of reset() and clear() retires none, and purge, which
\* deallocates offered blocks, leaves the offer pointers of the blocks it
\* deallocated outstanding.
C27_TokensOutstanding ==
    \A t \in Threads :
        (th[t].pc = "done" /\ th[t].op \notin {"reset", "clear"})
        => /\ Outstanding(g.before[t]) \ Retired(t) \subseteq Outstanding(be)
           /\ Retired(t) \cap Outstanding(be) = {}
           /\ th[t].op = "purge"
              => \A k \in TokIds :
                    (g.before[t].toks[k].st = "live" /\ be.toks[k].st # "live")
                    => /\ be.toks[k].st = "dead"
                       /\ be.blocks[g.before[t].toks[k].blk].st = "free"

\* reclaim was given the offer pointer of a block an earlier purge had
\* deallocated: the pointer was still outstanding, reclaim returned null and
\* retired it
C27_Witness ==
    \E t \in Threads :
        /\ Back(t, "reclaim")
        /\ th[t].ptr \in Tokens
        /\ th[t].ret = Null
        /\ ~th[t].raised
        /\ g.before[t].toks[TokId(th[t].ptr)].st = "dead"
        /\ be.toks[TokId(th[t].ptr)].st = "unused"

\* C30: reset() and clear() run resetCounters() before they delegate: when
\* the backend's reset() or clear() is about to be called every counter
\* has its initial value already and the backend is still untouched, and
\* after either call has returned each of the eighteen accessors returns 0.
C30_ResetAndClearZero ==
    \A t \in Threads :
        /\ th[t].pc \in {"x_reset", "x_clear"}
           => ctr = Constructed /\ be = g.before[t]
        /\ Back(t, "reset") \/ Back(t, "clear")
           => /\ \A a \in AccessorNames : Accessors[a] = 0
              /\ be = EmptyBackend(be.slack, be.object)

\* clear() is back from a proxy that had counted allocated, offered and
\* failed calls and whose backend held blocks
C30_Witness ==
    \E t \in Threads :
        /\ Back(t, "clear")
        /\ g.snap[t].m_allocB > 0
        /\ g.snap[t].m_offerC > 0
        /\ g.snap[t].m_alloc_failC > 0
        /\ BackendGetUsedBytes(g.before[t]) > 0
        /\ ctr = Constructed

\* C29: under concurrent callers every value getHighestUsage() returns is
\* 0 or a value the backend's getUsedBytes() reported to an alloc or
\* realloc call that had returned a pointer: m_highest changes only to 0
\* (a reset) or to the current_use of such a call at its
\* compare-and-swap, and current_use is only ever the backend's used bytes
\* at the instant the call read them. A value the backend reported is
\* one it held, so the mark never exceeds the largest the backend held.
\* At the step with which a granted call leaves its update of the mark,
\* the mark is at least the used bytes the call read; in a sequential run
\* nothing changes it between that step and the return.
C29_HighestWasReported ==
    [][ /\ ctr'.m_highest # ctr.m_highest
           => \/ ctr'.m_highest = 0
              \/ \E t \in Threads :
                    /\ th[t].pc = "casHighest"
                    /\ th[t].op \in {"alloc", "realloc"}
                    /\ th[t].ret # Null
                    /\ ctr'.m_highest = th[t].current_use
        /\ \A t \in Threads :
              th'[t].current_use # th[t].current_use
              => \/ th'[t].pc = "idle"
                 \/ /\ th[t].pc \in {"a_used", "r_used"}
                    /\ th'[t].current_use = BackendGetUsedBytes(be)
        /\ \A t \in Threads :
              ( /\ th[t].pc \in {"ldHighest", "casHighest"}
                /\ th'[t].pc \notin {"ldHighest", "casHighest"} )
              => ctr'.m_highest >= th[t].current_use
      ]_vars

\* two granted calls in flight at once: one has stored the used bytes it
\* read as the high-water mark, the other read a larger value and is at
\* its compare-and-swap
C29_Witness ==
    \E t, u \in Threads :
        /\ t # u
        /\ th[t].pc = "casHighest"
        /\ th[t].ret # Null
        /\ th[u].pc = "done"
        /\ th[u].op \in {"alloc", "realloc"}
        /\ th[u].ret # Null
        /\ getHighestUsage = th[u].current_use
        /\ th[t].current_use > getHighestUsage
        /\ getHighestUsage > 0

\* the blocks whose storage the backend holds for an allocation, in use or
\* offered
Held(b) == {h \in Handles : b.blocks[h].st \in {"alloc", "offered"}}

\* the blocks on which the backend calls the destructor during the call
\* thread t is back from, by the documentation of ObjectAllocator: free
\* calls it on the block freed (through its offer pointer too, if the block
\* is still offered), offer when the block is deallocated right away (a
\* null result), purge on the offered blocks it deallocates, clear on every
\* allocation; reset and the other operations call none
DestructorCalls(t) ==
    LET b == g.before[t]
        p == th[t].ptr
    IN  CASE th[t].op = "free" ->
                IF p \in Handles THEN {p} \cap Held(b)
                ELSE IF p \in Tokens /\ b.toks[TokId(p)].st = "live"
                THEN {b.toks[TokId(p)].blk}
                ELSE {}
          [] th[t].op = "offer" ->
                IF th[t].ret = Null /\ ~th[t].raised THEN {p} ELSE {}
          [] th[t].op = "purge" ->
                {b.toks[k].blk :
                    k \in {j \in TokIds : b.toks[j].st = "live"
                                          /\ be.toks[j].st = "dead"}}
          [] th[t].op = "clear" -> Held(b)
          [] OTHER -> {}

CasCounter ==
    [casLargest |-> "m_largest", casSmallest |-> "m_smallest",
     casHighest |-> "m_highest", casFail |-> "m_alloc_largest_fail"]

C31_SmallestBelowLargest == getSmallestAlloc <= getLargestAlloc

\* two granted calls of different sizes are in flight: the one has stored
\* both extrema, the other has raised the largest and is about to read the
\* smallest
C31_Witness ==
    \E t, u \in Threads :
        /\ t # u
        /\ th[t].pc = "ldSmallest"
        /\ th[u].pc \in {"ldHighest", "casHighest"}
        /\ th[t].bytes > th[u].bytes
        /\ getSmallestAlloc = th[u].bytes
        /\ getLargestAlloc = th[t].bytes
        /\ getSmallestAlloc > 0

\* C32: free, purge, getAllocSize, getFreeBytes, getUsedBytes,
\* getPendingBytes and getTotalBytes are pure forwards: when one of them
\* is back, all 18 counters are as the call found them; a query has
\* returned an answer of the backend's function of the same name and left
\* the backend alone, and free and purge have left the backend in a state
\* of the backend's free and purge applied once with the same argument.
C32_PureForwards ==
    \A t \in Threads :
        th[t].pc = "done"
        => /\ th[t].op \in {"free", "purge"}
              => /\ ctr = g.snap[t]
                 /\ Outcome(th[t].ret, th[t].raised, be)
                        \in Direct(g.before[t], th[t])
           /\ th[t].op \in {"getAllocSize", "getFreeBytes", "getUsedBytes",
                            "getPendingBytes", "getTotalBytes"}
              => /\ ctr = g.snap[t]
                 /\ be = g.before[t]
                 /\ th[t].last_size \in QueryAnswer(be, th[t].op, th[t].ptr)

\* getPendingBytes() has returned the size of an offered block, with
\* counters that earlier calls had moved
C32_Witness ==
    \E t \in Threads :
        /\ Back(t, "getPendingBytes")
        /\ th[t].last_size > 0
        /\ th[t].last_size < BackendGetUsedBytes(be)
        /\ getTotalOffers = 1
        /\ getTotalAllocs = 2

\* C33: a successful realloc, relocating or not, changes at most one of
\* getTotalReallocGrowth() and getTotalReallocShrink(), and the one it
\* changes it raises by the absolute difference between the requested size
\* and the size getAllocSize reported for the handle before the backend
\* was called; when the block was relocated, the same call has also raised
\* getTotalReallocMoves() by one and getTotalReallocMoved() by the
\* requested size.
C33_DeltaOfReportedSize ==
    \A t \in Threads :
        ReallocDone(t)
        => LET A == th[t].last_size
               B == th[t].bytes
               d == IF A > B THEN A - B ELSE B - A
               growth == getTotalReallocGrowth - g.snap[t].m_realloc_growthB
               shrink == getTotalReallocShrink - g.snap[t].m_realloc_shrinkB
           IN  /\ A \in BackendGetAllocSize(g.before[t], th[t].ptr)
               /\ \/ growth = d /\ shrink = 0
                  \/ growth = 0 /\ shrink = d
               /\ th[t].ret # th[t].ptr
                  => /\ getTotalReallocMoves = g.snap[t].m_realloc_moveC + 1
                     /\ getTotalReallocMoved = g.snap[t].m_realloc_moveB + B

\* a realloc has moved a block to a larger size and raised the move
\* counters and the growth counter
C33_Witness ==
    \E t \in Threads :
        /\ ReallocDone(t)
        /\ th[t].ret # th[t].ptr
        /\ th[t].bytes > th[t].last_size
        /\ getTotalReallocMoves = g.snap[t].m_realloc_moveC + 1
        /\ getTotalReallocGrowth
               = g.snap[t].m_realloc_growthB + th[t].bytes - th[t].last_size
        /\ getTotalReallocShrink = g.snap[t].m_realloc_shrinkB

\* C34: with no reset, every step that changes m_largest or m_smallest
\* stores the requested size of an alloc or realloc call that the backend
\* has granted and that is in its compare-and-swap loop on that counter,
\* first attempt or retry, and every step that changes
\* m_alloc_largest_fail stores the requested size of a call the backend
\* has refused or raised in; the counters start at 0 (SIZE_MAX for
\* m_smallest, which getSmallestAlloc() shows as 0), so each accessor is
\* always 0 or such a size.
C34_StoredWasRequested ==
    [][ /\ ctr'.m_largest # ctr.m_largest
           => \E t \in Threads :
                /\ th[t].pc = "casLargest"
                /\ th[t].op \in {"alloc", "realloc"}
                /\ th[t].ret # Null /\ ~th[t].raised
                /\ ctr'.m_largest = th[t].bytes
        /\ ctr'.m_smallest # ctr.m_smallest
           => \E t \in Threads :
                /\ th[t].pc = "casSmallest"
                /\ th[t].op \in {"alloc", "realloc"}
                /\ th[t].ret # Null /\ ~th[t].raised
                /\ ctr'.m_smallest = th[t].bytes
        /\ ctr'.m_alloc_largest_fail # ctr.m_alloc_largest_fail
           => \E t \in Threads :
                /\ th[t].pc = "casFail"
                /\ th[t].op \in {"alloc", "realloc"}
                /\ th[t].ret = Null \/ th[t].raised
                /\ ctr'.m_alloc_largest_fail = th[t].bytes
      ]_vars

\* a call is about to retry its compare-and-swap on m_largest: another
\* call's size was stored after it loaded the counter, and a refused size
\* has been recorded earlier
C34_Witness ==
    \E t, u \in Threads :
        /\ t # u
        /\ th[t].pc = "casLargest"
        /\ th[t].expected # ctr.m_largest
        /\ ctr.m_largest = th[u].bytes
        /\ th[u].pc \in {"ldSmallest", "casSmallest"}
        /\ th[t].bytes > ctr.m_largest
        /\ getLargestAllocFailed > 0

\* C35: when the backend's reclaim raises, the caller receives the
\* exception with getTotalReclaims() one higher than at entry and every
\* other counter, getTotalReclaimFails() and getTotalReclaimBytes() among
\* them, as at entry; when the backend's offer raises, the caller receives
\* the exception with getTotalOffers() one higher, getTotalOfferBytes()
\* higher by the size getAllocSize reported for the handle, and every
\* other counter as at entry.
C35_RaiseLeavesNoFailureRecord ==
    \A t \in Threads :
        /\ (th[t].op = "reclaim" /\ th[t].pc \notin {"idle", "c_backend"}
                /\ th[t].raised)
           => /\ th[t].pc = "done"
              /\ ctr = [g.snap[t] EXCEPT !.m_reclaimC = @ + 1]
        /\ (th[t].op = "offer" /\ th[t].pc \notin {"idle", "o_size", "o_addB",
                                                   "o_backend"}
                /\ th[t].raised)
           => /\ th[t].pc = "done"
              /\ th[t].last_size \in BackendGetAllocSize(g.before[t], th[t].ptr)
              /\ ctr = [g.snap[t] EXCEPT !.m_offerC = @ + 1,
                                         !.m_offerB = @ + th[t].last_size]

\* the backend has raised in a reclaim of a live offer pointer, after
\* calls that had moved the offer counters
C35_Witness ==
    \E t \in Threads :
        /\ Back(t, "reclaim")
        /\ th[t].raised
        /\ th[t].ptr \in Tokens
        /\ getTotalReclaims = g.snap[t].m_reclaimC + 1
        /\ getTotalOffers > 0
        /\ getTotalReclaimFails = 0

----------------------------------------------------------------------------
(* Offers and reclaims by concurrent callers *)

\* a proxy constructed over an ObjectAllocator that already holds
\* HeldAtStart blocks, called concurrently
InitOffers ==
    /\ ctr = Constructed
    /\ \E slack \in 0..MaxSlack, size \in 1..MaxSize :
        be = [EmptyBackend(slack, TRUE) EXCEPT
                !.blocks = [h \in Handles |->
                               IF h <= HeldAtStart
                               THEN [st |-> "alloc", size |-> size + slack]
                               ELSE FreeBlock]]
    /\ th = [t \in Threads |-> Idle]
    /\ g = [seq |-> FALSE, limit |-> MaxOfferOps, quota |-> 0, ops |-> 0,
            made |-> [t \in Threads |-> 0],
            snap |-> [t \in Threads |-> Constructed],
            before |-> [t \in Threads |-> be],
            h |-> NoHistory, once |-> TRUE, given |-> {}]

\* a reclaim of a pointer that an offer has returned and that no reclaim
\* has been given since
ReclaimTokenEnter(t) ==
    Budget(t) /\ \E ptr \in Tokens \ g.given : ReclaimCall(t, ptr)

NextOffers ==
    \E t \in Threads :
        \/ OfferEnter(t) \/ ReclaimTokenEnter(t)
        \/ FreeEnter(t) \/ PurgeEnter(t)
        \/ OfferSize(t) \/ OfferAddB(t) \/ OfferBackend(t)
        \/ ReclaimBackend(t) \/ ReclaimFail(t) \/ ReclaimSize(t)
        \/ ReclaimAddB(t)
        \/ Return(t)

SpecOffers == InitOffers /\ [][NextOffers]_vars

\* C36: in a run, sequential or concurrent, without reset, in which every
\* reclaim is given a pointer returned by an offer that has completed, and
\* each such pointer at most once, getTotalReclaims() <= getTotalOffers()
\* in every state.
C36_ReclaimsWithinOffers == getTotalReclaims <= getTotalOffers

\* two threads are in reclaim at the same time, each with a pointer of its
\* own, after two offers
C36_Witness ==
    \E t, u \in Threads :
        /\ t # u
        /\ th[t].op = "reclaim" /\ th[t].pc = "c_size"
        /\ th[u].op = "reclaim" /\ th[u].pc = "c_backend"
        /\ th[t].ptr # th[u].ptr
        /\ getTotalReclaims = 2
        /\ getTotalOffers = 2

====
